---------------------------- MODULE Spec2Model ----------------------------
(***************************************************************************)
(* Model of process() of the Mega_Help script (src/Mega_Help_Scriptv2.py,  *)
(* the same function as in src/Google_add_string_Hv2-2.py lines 542-674):  *)
(* one run scans the mailbox, records new cases in the local status table  *)
(* and in the seen file, then takes every case that is not done through    *)
(* folder lookup, document lookup, download, parse, filing and the append  *)
(* of a row to the tracking sheet, saving both files once per case, and    *)
(* finally sends the digest.  A run may be killed between any two steps;   *)
(* the files and the tracking sheet survive, the memory of the run is lost.*)
(***************************************************************************)
EXTENDS Naturals, Sequences, FiniteSets, TLC

\* ---------------------------------------------------------------- bounds
\* Adverse outcomes (exceptions, a missing folder or invoice) and kills that
\* one behaviour may contain; the number of runs is not bounded.
MaxFaults == 1
MaxKills == 1

\* The case numbers and the message ids of the scenario.  Messages 1 and 3
\* name the same case.
Cases == {1, 2}
Msgs  == {1, 2, 3}

\* A message that the query lists too, whose text names no approved case.
PlainMsgs == {4}

\* The case number that RE_APPROVED reads in the text of message m.
MsgCase(m) == ((m - 1) % Cardinality(Cases)) + 1

\* What a run can do for a case, and the causes of a case's failure.
OpNames == {"lookup", "find", "download", "extract", "file", "move_invoice",
            "move_grant", "row", "appended"}
Causes == {"folder", "invoice", "io", "parse", "append"}

\* ------------------------------------------------------------ data model
StPending == [kind |-> "pending", cause |-> ""]
StDone    == [kind |-> "done", cause |-> ""]
StError(cause) == [kind |-> "error", cause |-> cause]

CaseFlags ==
    [invoice_downloaded |-> FALSE, grant_downloaded |-> FALSE,
     parsed |-> FALSE, error |-> "none"]

NewRow(no) == [invoice_number |-> no, status |-> StPending, filled |-> FALSE]

Entry(kind, no) == [kind |-> kind, no |-> no]

VARIABLES
    xlsx,          \* cases_status.xlsx: the persisted status table (rows)
    seenFile,      \* seen_cases.json: [messages, cases]
    sheet,         \* the tracking sheet: case numbers of the appended rows
    pc,            \* position of the run in process()
    cases_df,      \* the run's status table
    seen_data,     \* the run's seen_data["cases"]
    seen_msgs,     \* the run's seen_msgs
    telegram_log,  \* the run's digest
    new_msgs,      \* what search_new_messages returned
    idx,           \* index of the row of the case loop
    case_flags,    \* the flags of the case in hand
    inv_meta, grant_meta, inv_path, grant_path,
    faults,        \* adverse outcomes injected so far
    kills,         \* kills so far
    ops,           \* per case: what this run did for it
    sent,          \* calls of the notification transport in this run
    runEnd,        \* how the last run ended
    gmailFailed,   \* the Gmail stage of this run raised
    startXlsx,     \* the status table as loaded when this run started
    startSeen,     \* the seen file as loaded when this run started
    delivery,      \* what became of the post of the digest of this run
    evaluated,     \* the message ids that the search of this run fetched
    pages,         \* the text of each page of an invoice document
    info,          \* what parse_invoice made of the text
    info_no,       \* the invoice number that parse_invoice read for the case in hand
    files,         \* the PDFs of a case folder of the file store
    chosen,        \* what the document selection returned
    dirs,          \* the directories of the working directory
    filing,        \* the case being filed: its number and its parsed date and amount
    target,        \* the directory the documents of the last filing went to
    made,          \* the calls of create_case_dir so far, with their results
    attempts       \* filings so far

persistent == <<xlsx, seenFile, sheet>>
volatile == <<cases_df, seen_data, seen_msgs, telegram_log, new_msgs, idx,
              case_flags, inv_meta, grant_meta, inv_path, grant_path, info_no>>
ghost == <<faults, kills, ops, sent, runEnd, gmailFailed, startXlsx, startSeen,
          delivery, evaluated>>
parser == <<pages, info>>
finder == <<files, chosen>>
local == <<dirs, filing, target, made, attempts>>
vars == <<persistent, pc, volatile, ghost, parser, finder, local>>

\* ------------------------------------------------------------ helpers
RowOf(df, no) == CHOOSE i \in 1..Len(df) : df[i].invoice_number = no
KnownIn(df, no) == \E i \in 1..Len(df) : df[i].invoice_number = no
StatusIn(df, no) == IF KnownIn(df, no) THEN df[RowOf(df, no)].status
                    ELSE [kind |-> "absent", cause |-> ""]

SetDefault(cases, no, v) == IF no \in DOMAIN cases THEN cases ELSE cases @@ (no :> v)
SetItem(cases, no, v) == [c \in DOMAIN cases \cup {no} |-> IF c = no THEN v ELSE cases[c]]

RECURSIVE SortedSeq(_)
SortedSeq(S) ==
    IF S = {} THEN <<>>
    ELSE LET m == CHOOSE x \in S : \A y \in S : x <= y
         IN <<m>> \o SortedSeq(S \ {m})

RECURSIVE CountEntries(_, _, _)
CountEntries(log, kind, no) ==
    IF log = <<>> THEN 0
    ELSE (IF Head(log).kind = kind /\ Head(log).no = no THEN 1 ELSE 0)
         + CountEntries(Tail(log), kind, no)

\* ------------------------------------------------------------ Init
Init ==
    /\ xlsx = <<>>
    /\ seenFile = [messages |-> {}, cases |-> <<>>]
    /\ sheet = <<>>
    /\ pc = "idle"
    /\ cases_df = <<>>
    /\ seen_data = <<>>
    /\ seen_msgs = {}
    /\ telegram_log = <<>>
    /\ new_msgs = <<>>
    /\ idx = 0
    /\ case_flags = CaseFlags
    /\ inv_meta = FALSE /\ grant_meta = FALSE
    /\ inv_path = FALSE /\ grant_path = FALSE
    /\ faults = 0
    /\ kills = 0
    /\ ops = [c \in Cases |-> {}]
    /\ sent = 0
    /\ runEnd = "none"
    /\ gmailFailed = FALSE
    /\ startXlsx = <<>>
    /\ startSeen = [messages |-> {}, cases |-> <<>>]
    /\ delivery = "none"
    /\ evaluated = {}
    /\ pages = <<>>
    /\ info = [kind |-> "none"]
    /\ info_no = 0
    /\ files = {}
    /\ chosen = [by |-> "none"]
    /\ dirs = {}
    /\ filing = [stage |-> "none"]
    /\ target = <<>>
    /\ made = {}
    /\ attempts = 0

\* An adverse outcome (an exception, a missing folder or invoice) is drawn
\* from the budget of the behaviour.
Fault == faults < MaxFaults /\ faults' = faults + 1

\* ------------------------------------------------------------ start of a run
\* process() lines 291-296: an empty digest, the table and the seen file loaded.
Start ==
    /\ pc = "idle"
    /\ cases_df' = xlsx
    /\ seen_data' = seenFile.cases
    /\ seen_msgs' = seenFile.messages
    /\ telegram_log' = <<>>
    /\ new_msgs' = <<>>
    /\ idx' = 0
    /\ case_flags' = CaseFlags
    /\ inv_meta' = FALSE /\ grant_meta' = FALSE
    /\ inv_path' = FALSE /\ grant_path' = FALSE
    /\ ops' = [c \in Cases |-> {}]
    /\ sent' = 0
    /\ runEnd' = "running"
    /\ gmailFailed' = FALSE
    /\ startXlsx' = xlsx
    /\ startSeen' = seenFile
    /\ delivery' = "none"
    /\ evaluated' = {}
    /\ info_no' = 0
    /\ pc' = "gmail"
    /\ UNCHANGED <<persistent, faults, kills, parser, finder, local>>

\* The run is over: process() returned (how = "normal") or raised out of
\* process() (how = "setup_error").
EndRun(how) ==
    /\ pc' = "idle"
    /\ runEnd' = how

\* search_new_messages: of the messages the query lists, those not yet seen
\* whose text names an approved case, as (id, case number), in list order.
\* Messages arrive in the order of their ids: the query lists messages 1..k.
SearchResult(S) == [i \in 1..Cardinality(S) |->
                       [id |-> SortedSeq(S)[i], inv |-> MsgCase(SortedSeq(S)[i])]]

\* lines 144-147: the listed messages that are not in seen_ids are fetched.
Fetched(listed, seen_ids) == listed \ seen_ids

GmailOk ==
    /\ pc = "gmail"
    /\ \E k \in {0} \cup Msgs \cup PlainMsgs :
          LET listed == {m \in Msgs \cup PlainMsgs : m <= k}
          IN /\ evaluated' = Fetched(listed, seen_msgs)
             /\ new_msgs' = SearchResult(Fetched(listed, seen_msgs) \cap Msgs)
    /\ pc' = "discover"
    /\ UNCHANGED <<persistent, cases_df, seen_data, seen_msgs, telegram_log, idx,
                   case_flags, inv_meta, grant_meta, inv_path, grant_path,
                   faults, kills, ops, sent, runEnd, gmailFailed, startXlsx,
                   startSeen, delivery, info_no, parser, finder, local>>

\* Mutant: after a Gmail error the run goes straight to the digest.
GmailError_SkipsCases ==
    /\ pc = "gmail"
    /\ new_msgs' = <<>>
    /\ telegram_log' = Append(telegram_log, Entry("gmail_error", 0))
    /\ gmailFailed' = TRUE
    /\ Fault
    /\ pc' = "send"
    /\ UNCHANGED <<persistent, cases_df, seen_data, seen_msgs, idx,
                   case_flags, inv_meta, grant_meta, inv_path, grant_path,
                   kills, ops, sent, runEnd, startXlsx, startSeen, delivery,
                   evaluated, info_no, parser, finder, local>>

\* lines 302-304: authorization or search raised.
GmailError ==
    /\ pc = "gmail"
    /\ new_msgs' = <<>>
    /\ telegram_log' = Append(telegram_log, Entry("gmail_error", 0))
    /\ gmailFailed' = TRUE
    /\ Fault
    /\ pc' = "discover"
    /\ UNCHANGED <<persistent, cases_df, seen_data, seen_msgs, idx,
                   case_flags, inv_meta, grant_meta, inv_path, grant_path,
                   kills, ops, sent, runEnd, startXlsx, startSeen, delivery,
                   evaluated, info_no, parser, finder, local>>

\* Mutant: the id of the message is not added to seen_msgs.
DiscoverOne_NotSeen(st, msg) ==
    [df    |-> IF KnownIn(st.df, msg.inv) THEN st.df
               ELSE Append(st.df, NewRow(msg.inv)),
     log   |-> Append(st.log, Entry("found", msg.inv)),
     seen  |-> st.seen,
     cases |-> SetDefault(st.cases, msg.inv, CaseFlags)]

\* Mutant: a row is added for every message, known case or not.
DiscoverOne_AlwaysAppends(st, msg) ==
    [df    |-> Append(st.df, NewRow(msg.inv)),
     log   |-> Append(st.log, Entry("found", msg.inv)),
     seen  |-> st.seen \cup {msg.id},
     cases |-> SetDefault(st.cases, msg.inv, CaseFlags)]

\* lines 306-318, one message.
DiscoverOne(st, msg) ==
    [df    |-> IF KnownIn(st.df, msg.inv) THEN st.df
               ELSE Append(st.df, NewRow(msg.inv)),
     log   |-> Append(st.log, Entry("found", msg.inv)),
     seen  |-> st.seen \cup {msg.id},
     cases |-> SetDefault(st.cases, msg.inv, CaseFlags)]

RECURSIVE DiscoverLoop(_, _)
DiscoverLoop(st, msgs) ==
    IF msgs = <<>> THEN st
    ELSE DiscoverLoop(DiscoverOne(st, Head(msgs)), Tail(msgs))

Discover ==
    /\ pc = "discover"
    /\ LET r == DiscoverLoop([df |-> cases_df, log |-> telegram_log,
                              seen |-> seen_msgs, cases |-> seen_data], new_msgs)
       IN /\ cases_df' = r.df
          /\ telegram_log' = r.log
          /\ seen_msgs' = r.seen
          /\ seen_data' = r.cases
    /\ pc' = "save_xlsx"
    /\ UNCHANGED <<persistent, new_msgs, idx, case_flags, inv_meta, grant_meta,
                   inv_path, grant_path, ghost, info_no, parser, finder, local>>

\* Mutant: the status table is not written after the Gmail stage.
SaveInitialXlsx_NotYet ==
    /\ pc = "save_xlsx"
    /\ pc' = "save_seen"
    /\ UNCHANGED <<persistent, volatile, ghost, parser, finder, local>>

\* line 321
SaveInitialXlsx ==
    /\ pc = "save_xlsx"
    /\ xlsx' = cases_df
    /\ pc' = "save_seen"
    /\ UNCHANGED <<seenFile, sheet, volatile, ghost, parser, finder, local>>

\* Mutant: only the ids discovered by this run are written.
SeenDocument_NewOnly(msgs, cases) ==
    [messages |-> msgs \ startSeen.messages, cases |-> cases]

\* What save_seen writes: seen_data with its "messages" set at line 322.
SeenDocument(msgs, cases) == [messages |-> msgs, cases |-> cases]

\* lines 322-323
SaveInitialSeen ==
    /\ pc = "save_seen"
    /\ seenFile' = SeenDocument(seen_msgs, seen_data)
    /\ pc' = "drive"
    /\ UNCHANGED <<xlsx, sheet, volatile, ghost, parser, finder, local>>

\* lines 326-327
DriveOk ==
    /\ pc = "drive"
    /\ idx' = 1
    /\ pc' = "loop"
    /\ UNCHANGED <<persistent, cases_df, seen_data, seen_msgs, telegram_log, new_msgs,
                   case_flags, inv_meta, grant_meta, inv_path, grant_path, ghost, info_no, parser, finder, local>>

\* get_drive_service raises: nothing catches it inside process().
DriveFail ==
    /\ pc = "drive"
    /\ Fault
    /\ EndRun("setup_error")
    /\ UNCHANGED <<persistent, volatile, kills, ops, sent, gmailFailed, startXlsx,
                   startSeen, delivery,
                   evaluated, parser, finder, local>>


\* ------------------------------------------------------------ the case loop
CurRow == cases_df[idx]
Cur == CurRow.invoice_number

\* Mutant: a case in error is skipped like a done one.
SkipCase_ErrorToo(status) == status.kind \in {"done", "error"}

\* Mutant: the status is not consulted and done cases are processed again.
SkipCase_Never(status) == FALSE

\* Mutant: a case that waits for its invoice is skipped too.
SkipCase_PendingToo(status) == status \in {StDone, StPending}

\* line 331: a case whose status is done is skipped.
SkipCase(status) == status = StDone

\* Mutant: every attempt starts from fresh flags.
LoadCaseFlags_Fresh(cases, no) == CaseFlags

\* line 334: the flags the seen file holds for the case, else fresh ones.
LoadCaseFlags(cases, no) == IF no \in DOMAIN cases THEN cases[no] ELSE CaseFlags

SetStatus(df, i, st) == [df EXCEPT ![i].status = st]

Did(no, what) == ops' = [ops EXCEPT ![no] = @ \cup what]

\* line 329: the rows are exhausted.
LoopExit ==
    /\ pc = "loop"
    /\ idx > Len(cases_df)
    /\ pc' = "send"
    /\ UNCHANGED <<persistent, volatile, ghost, parser, finder, local>>

\* lines 330-332
SkipDone ==
    /\ pc = "loop"
    /\ idx <= Len(cases_df)
    /\ SkipCase(CurRow.status)
    /\ idx' = idx + 1
    /\ UNCHANGED <<persistent, pc, cases_df, seen_data, seen_msgs, telegram_log,
                   new_msgs, case_flags, inv_meta, grant_meta, inv_path, grant_path,
                   ghost, info_no, parser, finder, local>>

\* lines 333-335
BeginCase ==
    /\ pc = "loop"
    /\ idx <= Len(cases_df)
    /\ ~SkipCase(CurRow.status)
    /\ case_flags' = LoadCaseFlags(seen_data, Cur)
    /\ inv_meta' = FALSE /\ grant_meta' = FALSE
    /\ inv_path' = FALSE /\ grant_path' = FALSE
    /\ info_no' = 0
    /\ pc' = "folder"
    /\ UNCHANGED <<persistent, cases_df, seen_data, seen_msgs, telegram_log,
                   new_msgs, idx, ghost, parser, finder, local>>

\* Mutant: an exception of a stage leaves the case loop.
AfterRaise_LeavesLoop == "send"

\* Where the run goes when a stage of a case raises: the except clause of
\* lines 397-400 has run and the finally clause is next.
AfterRaise == "fin_xlsx"

\* Mutant: the except clause does not store the cause in the flags.
Raise_NoFlag(cause, what) ==
    /\ cases_df' = SetStatus(cases_df, idx, StError(cause))
    /\ telegram_log' = Append(telegram_log, Entry("error", Cur))
    /\ Did(Cur, what \cup {cause})
    /\ Fault
    /\ pc' = AfterRaise
    /\ UNCHANGED <<persistent, seen_data, seen_msgs, new_msgs, idx, case_flags,
                   inv_meta, grant_meta, inv_path, grant_path,
                   kills, sent, runEnd, gmailFailed, startXlsx, startSeen, delivery,
                   evaluated, info_no, parser, finder, local>>

\* lines 397-400: the except clause, for an exception whose text is cause.
Raise(cause, what) ==
    /\ cases_df' = SetStatus(cases_df, idx, StError(cause))
    /\ telegram_log' = Append(telegram_log, Entry("error", Cur))
    /\ case_flags' = [case_flags EXCEPT !.error = cause]
    /\ Did(Cur, what \cup {cause})
    /\ Fault
    /\ pc' = AfterRaise
    /\ UNCHANGED <<persistent, seen_data, seen_msgs, new_msgs, idx,
                   inv_meta, grant_meta, inv_path, grant_path,
                   kills, sent, runEnd, gmailFailed, startXlsx, startSeen, delivery,
                   evaluated, info_no, parser, finder, local>>

\* line 337: the folder named by the padded case number exists.
FolderFound ==
    /\ pc = "folder"
    /\ Did(Cur, {"lookup"})
    /\ pc' = "find"
    /\ UNCHANGED <<persistent, volatile, faults, kills, sent, runEnd, gmailFailed,
                   startXlsx, startSeen, delivery,
                   evaluated, parser, finder, local>>

\* lines 338-339
FolderMissing ==
    /\ pc = "folder"
    /\ Raise("folder", {"lookup"})

\* line 337: the listing call itself raises.
FolderLookupError ==
    /\ pc = "folder"
    /\ Raise("io", {"lookup"})

\* lines 340-342: each document is found or not.
FindPdfs ==
    /\ pc = "find"
    /\ \E i \in BOOLEAN, g \in BOOLEAN :
          /\ inv_meta' = i
          /\ grant_meta' = g
          /\ IF i THEN UNCHANGED faults ELSE Fault
          /\ pc' = IF i THEN "dl_inv" ELSE IF g THEN "dl_grant" ELSE "no_invoice"
    /\ Did(Cur, {"find"})
    /\ UNCHANGED <<persistent, cases_df, seen_data, seen_msgs, telegram_log, new_msgs,
                   idx, case_flags, inv_path, grant_path,
                   kills, sent, runEnd, gmailFailed, startXlsx, startSeen, delivery,
                   evaluated, info_no, parser, finder, local>>

FindPdfsError ==
    /\ pc = "find"
    /\ Raise("io", {"find"})

\* lines 343-348
DownloadInvoice ==
    /\ pc = "dl_inv"
    /\ inv_path' = TRUE
    /\ telegram_log' = Append(telegram_log, Entry("download_invoice", Cur))
    /\ case_flags' = [case_flags EXCEPT !.invoice_downloaded = TRUE]
    /\ Did(Cur, {"download"})
    /\ pc' = IF grant_meta THEN "dl_grant" ELSE "parse"
    /\ UNCHANGED <<persistent, cases_df, seen_data, seen_msgs, new_msgs, idx,
                   inv_meta, grant_meta, grant_path,
                   faults, kills, sent, runEnd, gmailFailed, startXlsx, startSeen, delivery,
                   evaluated, info_no, parser, finder, local>>

DownloadInvoiceError ==
    /\ pc = "dl_inv"
    /\ Raise("io", {"download"})

\* lines 349-354
DownloadGrant ==
    /\ pc = "dl_grant"
    /\ grant_path' = TRUE
    /\ telegram_log' = Append(telegram_log, Entry("download_grant", Cur))
    /\ case_flags' = [case_flags EXCEPT !.grant_downloaded = TRUE]
    /\ Did(Cur, {"download"})
    /\ pc' = IF inv_path THEN "parse" ELSE "no_invoice"
    /\ UNCHANGED <<persistent, cases_df, seen_data, seen_msgs, new_msgs, idx,
                   inv_meta, grant_meta, inv_path,
                   faults, kills, sent, runEnd, gmailFailed, startXlsx, startSeen, delivery,
                   evaluated, info_no, parser, finder, local>>

DownloadGrantError ==
    /\ pc = "dl_grant"
    /\ Raise("io", {"download"})

\* lines 391-396: no invoice document in the folder.
NoInvoice ==
    /\ pc = "no_invoice"
    /\ cases_df' = SetStatus(cases_df, idx, StError("invoice"))
    /\ telegram_log' = Append(telegram_log, Entry("error", Cur))
    /\ case_flags' = [case_flags EXCEPT !.error = "invoice"]
    /\ Did(Cur, {"invoice"})
    /\ pc' = "fin_xlsx"
    /\ UNCHANGED <<persistent, seen_data, seen_msgs, new_msgs, idx,
                   inv_meta, grant_meta, inv_path, grant_path,
                   faults, kills, sent, runEnd, gmailFailed, startXlsx, startSeen, delivery,
                   evaluated, info_no, parser, finder, local>>

\* The invoice numbers a document of a case folder can carry.
DocNumbers == Cases \cup {3}

\* lines 357-365: parse_invoice returned the fields of a document whose
\* invoice number is no; the number is not looked at.
Parsed(no) ==
    /\ info_no' = no
    /\ cases_df' = [cases_df EXCEPT ![idx].filled = TRUE]
    /\ telegram_log' = Append(telegram_log, Entry("parsed", 0))
    /\ case_flags' = [case_flags EXCEPT !.parsed = TRUE]
    /\ Did(Cur, {"extract"})
    /\ pc' = "file"
    /\ UNCHANGED <<persistent, seen_data, seen_msgs, new_msgs, idx,
                   inv_meta, grant_meta, inv_path, grant_path,
                   kills, sent, runEnd, gmailFailed, startXlsx, startSeen, delivery,
                   evaluated, parser, finder, local>>

\* lines 357-365: the document of the folder is the invoice of the case.
ParseOk ==
    /\ pc = "parse"
    /\ Parsed(Cur)
    /\ UNCHANGED faults

\* lines 357-365: the document of the folder is the invoice of another case.
ParseOther ==
    /\ pc = "parse"
    /\ \E no \in DocNumbers \ {Cur} : Parsed(no)
    /\ Fault

\* parse_invoice raises (a field is missing).
ParseError ==
    /\ pc = "parse"
    /\ Raise("parse", {"extract"})

\* Mutant: the grant agreement is moved whether it was downloaded or not.
Moved_Both(grant) == {"move_invoice", "move_grant"}

\* lines 367-369: the invoice is moved, the grant agreement if there is one.
Moved(grant) == {"move_invoice"} \cup IF grant THEN {"move_grant"} ELSE {}

\* lines 366-370: the directory is made and the documents are moved into it.
FileOk ==
    /\ pc = "file"
    /\ telegram_log' = Append(telegram_log, Entry("filed", 0))
    /\ Did(Cur, {"file"} \cup Moved(grant_path))
    /\ pc' = "append"
    /\ UNCHANGED <<persistent, cases_df, seen_data, seen_msgs, new_msgs, idx,
                   case_flags, inv_meta, grant_meta, inv_path, grant_path,
                   faults, kills, sent, runEnd, gmailFailed, startXlsx, startSeen, delivery,
                   evaluated, info_no, parser, finder, local>>

FileError ==
    /\ pc = "file"
    /\ Raise("io", {"file"})

\* lines 371-390: the row is appended, then the status is set in memory.
AppendOk ==
    /\ pc = "append"
    /\ sheet' = Append(sheet, Cur)
    /\ telegram_log' = telegram_log \o <<Entry("recorded", 0), Entry("done", Cur)>>
    /\ cases_df' = SetStatus(cases_df, idx, StDone)
    /\ Did(Cur, {"row", "appended"})
    /\ pc' = "fin_xlsx"
    /\ UNCHANGED <<xlsx, seenFile, seen_data, seen_msgs, new_msgs, idx,
                   case_flags, inv_meta, grant_meta, inv_path, grant_path,
                   faults, kills, sent, runEnd, gmailFailed, startXlsx, startSeen, delivery,
                   evaluated, info_no, parser, finder, local>>

\* append_row raises and no row was added.
AppendError ==
    /\ pc = "append"
    /\ Raise("append", {"row"})

\* What the finally clause leaves in seen_data["cases"] (line 402).
FinallyCases(cases, no, flags) == SetItem(cases, no, flags)

\* lines 402-403
FinallyXlsx ==
    /\ pc = "fin_xlsx"
    /\ seen_data' = FinallyCases(seen_data, Cur, case_flags)
    /\ xlsx' = cases_df
    /\ pc' = "fin_seen"
    /\ UNCHANGED <<seenFile, sheet, cases_df, seen_msgs, telegram_log, new_msgs, idx,
                   case_flags, inv_meta, grant_meta, inv_path, grant_path, ghost, info_no, parser, finder, local>>

\* Mutant: the finally clause does not write the seen file.
FinallySeen_NoSave ==
    /\ pc = "fin_seen"
    /\ idx' = idx + 1
    /\ pc' = "loop"
    /\ UNCHANGED <<persistent, cases_df, seen_data, seen_msgs, telegram_log, new_msgs,
                   case_flags, inv_meta, grant_meta, inv_path, grant_path, ghost, info_no, parser, finder, local>>

\* line 404, and the loop moves on.
FinallySeen ==
    /\ pc = "fin_seen"
    /\ seenFile' = SeenDocument(seen_msgs, seen_data)
    /\ idx' = idx + 1
    /\ pc' = "loop"
    /\ UNCHANGED <<xlsx, sheet, cases_df, seen_data, seen_msgs, telegram_log, new_msgs,
                   case_flags, inv_meta, grant_meta, inv_path, grant_path, ghost, info_no, parser, finder, local>>

\* ------------------------------------------------------------ the digest
\* Mutant: the digest is posted even when it is empty.
TransportCalls_Always(log) == 1

\* send_telegram, lines 277-278: nothing is sent for an empty digest.
TransportCalls(log) == IF log = <<>> THEN 0 ELSE 1

\* line 406: the digest is empty and nothing is posted, or the post succeeds.
Send ==
    /\ pc = "send"
    /\ sent' = sent + TransportCalls(telegram_log)
    /\ delivery' = IF TransportCalls(telegram_log) = 0 THEN "none" ELSE "ok"
    /\ EndRun("normal")
    /\ UNCHANGED <<persistent, volatile, faults, kills, ops, gmailFailed, startXlsx,
                   startSeen, evaluated, parser, finder, local>>

\* Mutant: the exception of the post leaves send_telegram and process().
AfterTransportError_Propagates == "setup_error"

\* How the run ends when requests.post raises: the except clause of lines
\* 283-284 passes, send_telegram returns and so does process().
AfterTransportError == "normal"

\* line 406: requests.post raises (lines 280-284).
SendFails ==
    /\ pc = "send"
    /\ TransportCalls(telegram_log) > 0
    /\ sent' = sent + TransportCalls(telegram_log)
    /\ delivery' = "failed"
    /\ Fault
    /\ EndRun(AfterTransportError)
    /\ UNCHANGED <<persistent, volatile, kills, ops, gmailFailed, startXlsx,
                   startSeen, evaluated, parser, finder, local>>

\* ------------------------------------------------------------ interruption
\* The process is killed: the files and the sheet stay, the memory is lost.
Kill ==
    /\ pc # "idle"
    /\ kills < MaxKills
    /\ kills' = kills + 1
    /\ pc' = "idle"
    /\ runEnd' = "killed"
    /\ cases_df' = <<>>
    /\ seen_data' = <<>>
    /\ seen_msgs' = {}
    /\ telegram_log' = <<>>
    /\ new_msgs' = <<>>
    /\ idx' = 0
    /\ case_flags' = CaseFlags
    /\ inv_meta' = FALSE /\ grant_meta' = FALSE
    /\ inv_path' = FALSE /\ grant_path' = FALSE
    /\ ops' = [c \in Cases |-> {}]
    /\ sent' = 0
    /\ gmailFailed' = FALSE
    /\ startXlsx' = <<>>
    /\ startSeen' = [messages |-> {}, cases |-> <<>>]
    /\ delivery' = "none"
    /\ evaluated' = {}
    /\ info_no' = 0
    /\ UNCHANGED <<persistent, faults, parser, finder, local>>

Next ==
    \/ Start \/ GmailOk \/ GmailError \/ Discover
    \/ SaveInitialXlsx \/ SaveInitialSeen \/ DriveOk \/ DriveFail
    \/ LoopExit \/ SkipDone \/ BeginCase
    \/ FolderFound \/ FolderMissing \/ FolderLookupError
    \/ FindPdfs \/ FindPdfsError
    \/ DownloadInvoice \/ DownloadInvoiceError
    \/ DownloadGrant \/ DownloadGrantError
    \/ NoInvoice
    \/ ParseOk \/ ParseOther \/ ParseError
    \/ FileOk \/ FileError
    \/ AppendOk \/ AppendError
    \/ FinallyXlsx \/ FinallySeen
    \/ Send \/ SendFails
    \/ Kill

Spec == Init /\ [][Next]_vars


\* ------------------------------------------------------------ vocabulary of the claims
RowsFor(c) == Cardinality({i \in 1..Len(sheet) : sheet[i] = c})

FlagNames == {"invoice_downloaded", "grant_downloaded", "parsed"}

\* The run is inside the attempt of one case (the try statement of lines 336-404).
CasePcs == {"folder", "find", "dl_inv", "dl_grant", "no_invoice", "parse", "file",
            "append"}
FinallyPcs == {"fin_xlsx", "fin_seen"}

\* The run returned from process() by itself.
Completed == pc = "idle" /\ runEnd = "normal"

\* The attempt of case c in this run is over and its finally clause has saved.
Finished(c) ==
    /\ ops[c] # {}
    /\ \/ pc \in {"send"}
       \/ Completed
       \/ pc \in {"loop"} \cup CasePcs \cup FinallyPcs /\ KnownIn(cases_df, c)
          /\ RowOf(cases_df, c) < idx

PersistedFlags(c) == LoadCaseFlags(seenFile.cases, c)

\* ------------------------------------------------------------ C1
\* C1 (as stated): across any sequence of runs, killed and restarted runs
\* included, the tracking sheet holds at most one row per case number.
\* A kill between append_row and the save of the finally clause leaves the
\* case not done on disk, and the next run appends its row again.
C1_AtMostOneRowPerCase == \A c \in Cases : RowsFor(c) <= 1

\* ------------------------------------------------------------ C2
\* C2: once the status of a case is persisted as done, no step of any run
\* looks up, downloads, parses, files or appends anything for the case, and
\* its persisted status stays done.
C2_DoneIsSkipped ==
    [][\A c \in Cases :
          StatusIn(xlsx, c) = StDone =>
             /\ StatusIn(xlsx', c) = StDone
             /\ ops'[c] \subseteq ops[c]
             /\ RowsFor(c)' = RowsFor(c)
             /\ (pc' \in CasePcs \cup FinallyPcs => Cur' # c)]_vars

\* A run that began with a done case and with a case still to do has
\* finished its case loop: the one was skipped, the other attempted.
C2_Witness ==
    /\ pc = "send"
    /\ \E c \in Cases, d \in Cases :
          /\ StatusIn(startXlsx, c) = StDone
          /\ ops[c] = {}
          /\ ops[d] # {}

ToDoAtLoopStart == {c \in Cases : KnownIn(cases_df, c) /\ StatusIn(startXlsx, c) # StDone}

\* A case of this run failed: a cause is recorded for it.
FailedInRun(c) == ops[c] \cap Causes # {}

\* The rows and the flags of every case but the one in hand.
OthersUnchanged ==
    /\ Len(cases_df') = Len(cases_df)
    /\ \A j \in 1..Len(cases_df) : j # idx => cases_df'[j] = cases_df[j]
    /\ \A c \in Cases \ {Cur} :
          /\ c \in DOMAIN seen_data' <=> c \in DOMAIN seen_data
          /\ LoadCaseFlags(seen_data', c) = LoadCaseFlags(seen_data, c)
          /\ ops'[c] = ops[c]
    /\ xlsx' = xlsx
    /\ seenFile' = seenFile

\* C4: an exception in a stage of one case does not stop the case loop: when
\* the loop is over, every case that was not done has been attempted, also
\* after another case failed; and the step in which a case fails changes
\* neither the row nor the flags of any other case, in memory or on disk.
C4_SiblingsStillProcessed ==
    /\ [](pc = "send" => \A c \in ToDoAtLoopStart : "lookup" \in ops[c])
    /\ [][(pc \in CasePcs /\ pc' \in FinallyPcs /\ (FailedInRun(Cur))')
             => OthersUnchanged]_vars

\* The first case of the loop failed and the second one was still taken to
\* the end of its attempt.
C4_Witness ==
    /\ pc = "send"
    /\ Len(cases_df) = 2
    /\ FailedInRun(cases_df[1].invoice_number)
    /\ "appended" \in ops[cases_df[2].invoice_number]

\* ------------------------------------------------------------ C5
\* C5: a case that failed in this run (folder not found, invoice not found,
\* extraction failure, append failure, or another exception of a stage) is,
\* once its attempt is over and until the run ends, persisted with an error
\* status that carries the cause and with the cause in its error flag; the
\* digest holds exactly one error line for it; and the run goes on (the
\* failure does not end process()).
C5_FailureRecorded ==
    \A c \in Cases : \A k \in Causes :
       (k \in ops[c] /\ Finished(c)) =>
          /\ StatusIn(xlsx, c) = StError(k)
          /\ c \in DOMAIN seenFile.cases
          /\ seenFile.cases[c].error = k
          /\ CountEntries(telegram_log, "error", c) = 1
          /\ runEnd \in {"running", "normal"}

\* A run has ended by itself after the extraction of a case failed.
C5_Witness ==
    /\ Completed
    /\ \E c \in Cases : "parse" \in ops[c] /\ StatusIn(xlsx, c) = StError("parse")

\* ------------------------------------------------------------ C6
\* C6: the flags invoice_downloaded, grant_downloaded and parsed of a case
\* never go from true to false: not in the seen file, by any step of any run
\* or by a kill; not in the memory of a run; and a case whose row append
\* failed is persisted with the flags of its earlier stages true.
C6_FlagsMonotone ==
    /\ [][\A c \in Cases : \A f \in FlagNames :
             /\ PersistedFlags(c)[f] => PersistedFlags(c)'[f]
             /\ (pc # "idle" /\ pc' # "idle" /\ LoadCaseFlags(seen_data, c)[f])
                   => LoadCaseFlags(seen_data', c)[f]
             /\ (pc \in CasePcs /\ pc' \in CasePcs \cup FinallyPcs /\ case_flags[f])
                   => case_flags'[f]]_vars
    /\ [](\A c \in Cases :
             ("append" \in ops[c] /\ Finished(c)) =>
                PersistedFlags(c).invoice_downloaded /\ PersistedFlags(c).parsed)

\* A case that an earlier run left in error with both documents downloaded is
\* attempted again, this time without a grant agreement, and saved.
C6_Witness ==
    /\ pc = "loop"
    /\ \E c \in Cases :
          /\ StatusIn(startXlsx, c).kind = "error"
          /\ LoadCaseFlags(startSeen.cases, c).grant_downloaded
          /\ "download" \in ops[c]
          /\ Finished(c)
          /\ CountEntries(telegram_log, "download_grant", c) = 0

\* ------------------------------------------------------------ C7
\* C7: in a run that gets through its case loop, every case that the run
\* found in error is attempted again from the folder lookup, and if its row
\* is appended in the run (so folder and invoice were found and the
\* extraction succeeded) the case is persisted as done.
C7_ErrorCasesRetried ==
    (pc = "send" \/ Completed) =>
       \A c \in Cases :
          StatusIn(startXlsx, c).kind = "error" =>
             /\ "lookup" \in ops[c]
             /\ "appended" \in ops[c] =>
                   /\ StatusIn(xlsx, c) = StDone
                   /\ {"lookup", "find", "download", "extract", "file", "row"}
                         \subseteq ops[c]

\* A run ended by itself with a case done that it had found in error.
C7_Witness ==
    /\ Completed
    /\ \E c \in Cases :
          /\ StatusIn(startXlsx, c).kind = "error"
          /\ StatusIn(xlsx, c) = StDone
          /\ "appended" \in ops[c]


\* ------------------------------------------------------------ C8
\* The run has saved the outcome of its discovery stage.
AfterDiscoverySave == pc \in {"drive", "loop", "send"} \cup CasePcs \cup FinallyPcs

\* No folder or document lookup and no download has been started in this run.
NothingStarted == \A c \in Cases : ops[c] = {}

\* C8: once the discovery stage is saved, and so before the first lookup or
\* download of the run, every message that discovery returned is in the
\* persisted seen-messages, its case has a persisted row and persisted flags,
\* and the digest has a found-message entry for the case; as long as nothing
\* is started, a case that was not known when the run began is persisted as
\* pending with all flags false.  Nothing is started before that save.
C8_DiscoveryRecordedFirst ==
    /\ AfterDiscoverySave =>
          \A i \in 1..Len(new_msgs) :
             LET m == new_msgs[i].id
                 c == new_msgs[i].inv
             IN /\ m \in seenFile.messages
                /\ KnownIn(xlsx, c)
                /\ c \in DOMAIN seenFile.cases
                /\ CountEntries(telegram_log, "found", c) >= 1
                /\ (NothingStarted /\ ~KnownIn(startXlsx, c)) =>
                      /\ StatusIn(xlsx, c) = StPending
                      /\ seenFile.cases[c] = CaseFlags
    /\ (pc # "idle" /\ ~AfterDiscoverySave) => NothingStarted

\* Discovery returned messages of two new cases and the run is about to
\* authorize Drive.
C8_Witness ==
    /\ pc = "drive"
    /\ Len(new_msgs) >= 2
    /\ \E i \in 1..Len(new_msgs) : ~KnownIn(startXlsx, new_msgs[i].inv)
    /\ startXlsx = <<>>
    /\ NothingStarted

\* ------------------------------------------------------------ C9
\* C9: when the Gmail stage raises, the digest holds exactly one entry for
\* it, the run adds no row to the status table and no message id to
\* seen-messages, in memory or on disk, and a run that gets through its case
\* loop has attempted every known case that was not done.
C9_GmailErrorContained ==
    gmailFailed =>
       /\ CountEntries(telegram_log, "gmail_error", 0) = 1
       /\ \A c \in Cases : CountEntries(telegram_log, "found", c) = 0
       /\ Len(cases_df) = Len(startXlsx)
       /\ Len(xlsx) = Len(startXlsx)
       /\ seen_msgs = startSeen.messages
       /\ seenFile.messages = startSeen.messages
       /\ (pc = "send" \/ Completed) =>
             \A c \in Cases :
                (KnownIn(startXlsx, c) /\ StatusIn(startXlsx, c) # StDone)
                   => "lookup" \in ops[c]

\* A run whose Gmail stage raised has ended by itself after taking a known
\* pending case to done.
C9_Witness ==
    /\ Completed
    /\ gmailFailed
    /\ \E c \in Cases :
          /\ StatusIn(startXlsx, c) = StPending
          /\ StatusIn(xlsx, c) = StDone

\* ------------------------------------------------------------ C10
\* Discovery returned nothing, without raising, and every known case was done.
NothingToDo ==
    /\ new_msgs = <<>>
    /\ ~gmailFailed
    /\ \A j \in 1..Len(startXlsx) : startXlsx[j].status = StDone

\* C10: the transport is never called while a run is under way; a run that
\* ends by itself has called it once if its digest is not empty and not at
\* all if it is empty; with nothing to do the digest is empty and the
\* transport is not called.
C10_DigestSentIffNonEmpty ==
    /\ sent <= 1
    /\ pc # "idle" => sent = 0
    /\ Completed =>
          /\ sent = 1 <=> telegram_log # <<>>
          /\ NothingToDo => telegram_log = <<>> /\ sent = 0

\* A run over a table of done cases, with no new message, has ended by
\* itself with an empty digest.
C10_Witness ==
    /\ Completed
    /\ NothingToDo
    /\ Len(startXlsx) >= 1
    /\ telegram_log = <<>>
    /\ sent = 0

\* ------------------------------------------------------------ C11
\* C11: when the post of the digest raises, the exception is swallowed: the
\* run ends as a run that returned from process() by itself, and the step
\* that ends the run, post failed or not, changes nothing in the seen file,
\* the status table or the tracking sheet, which already hold all that the
\* run has in memory.
C11_DeliveryFailureSwallowed ==
    /\ [](delivery = "failed" => Completed)
    /\ [][pc = "send" /\ kills' = kills =>
             /\ persistent' = persistent
             /\ xlsx' = cases_df
             /\ seenFile' = SeenDocument(seen_msgs, seen_data)]_vars

\* A run took a case to done and ended by itself although the post of its
\* digest raised.
C11_Witness ==
    /\ Completed
    /\ delivery = "failed"
    /\ \E c \in Cases : "appended" \in ops[c] /\ StatusIn(xlsx, c) = StDone

\* ------------------------------------------------------------ C12
\* The entries of a digest that concern case c.
EntriesFor(log, c) == {i \in 1..Len(log) : log[i].no = c}

\* C12 (as stated): the digest that a run sends holds no entry for a case
\* that was persisted as done when the run began.  A later message that
\* names a done case still gets its found-message entry at line 316.
C12_NoDigestForDoneCase ==
    (Completed /\ delivery = "ok") =>
       \A c \in Cases :
          StatusIn(startXlsx, c) = StDone => EntriesFor(telegram_log, c) = {}

\* ------------------------------------------------------------ C13
TableRowsFor(df, c) == Cardinality({i \in 1..Len(df) : df[i].invoice_number = c})

\* C13: the status table, on disk and in the memory of a run, never holds
\* two rows with the same case number, whatever messages name the case.
C13_OneTableRowPerCase ==
    \A c \in Cases : TableRowsFor(xlsx, c) <= 1 /\ TableRowsFor(cases_df, c) <= 1

\* One run discovered two messages that name the same case, saved its table
\* with a single row for the case, and a case known from an earlier run was
\* named again.
C13_Witness ==
    /\ pc = "drive"
    /\ \E i \in 1..Len(new_msgs), j \in 1..Len(new_msgs) :
          /\ i < j
          /\ new_msgs[i].inv = new_msgs[j].inv
          /\ TableRowsFor(xlsx, new_msgs[i].inv) = 1
    /\ \E i \in 1..Len(new_msgs) : KnownIn(startXlsx, new_msgs[i].inv)

\* ------------------------------------------------------------ C14
\* C14: no step of any run, and no kill, removes a message id from the seen
\* file: every save writes a superset of what the file held; the set that a
\* run holds in memory only grows too.
C14_SeenAppendOnly ==
    [][/\ seenFile.messages \subseteq seenFile'.messages
       /\ (pc # "idle" /\ pc' # "idle") => seen_msgs \subseteq seen_msgs']_vars

\* A run that began with message ids in the seen file has saved the file
\* again, with more ids.
C14_Witness ==
    /\ pc = "drive"
    /\ startSeen.messages # {}
    /\ startSeen.messages \subseteq seenFile.messages
    /\ seenFile.messages # startSeen.messages

\* ------------------------------------------------------------ C15
\* C15 (as stated): when a run has ended by itself, every message id that its
\* search fetched and evaluated is in the persisted seen-messages, whether
\* the text named an approved case or not.  search_new_messages returns only
\* the messages that matched, so the others are never recorded and every
\* later run fetches them again.
C15_EvaluatedAreSeen == Completed => evaluated \subseteq seenFile.messages

\* ============================================================ parse_invoice
\* The text of a document is a sequence of symbols: a digit, a blank, a line
\* break ("nl"), a punctuation mark, one of the words the patterns name (a
\* word stands for its spellings in any case, the patterns being re.I) or
\* another word ("x").
Digits == <<"0", "1", "2", "3", "4", "5", "6", "7", "8", "9">>
Keywords == {"Invoice", "No", "Total", "amount", "USD", "Description"}

IsDigit(c) == \E n \in 1..Len(Digits) : Digits[n] = c
DigitVal(c) == (CHOOSE n \in 1..Len(Digits) : Digits[n] = c) - 1
IsSpace(c) == c \in {" ", "nl"}
IsWordChar(c) == IsDigit(c) \/ c \in Keywords \/ c = "x"

At(t, i) == IF i \in 1..Len(t) THEN t[i] ELSE "eof"

\* The value that int() or float() reads in a string of digits.
RECURSIVE NumOf(_)
NumOf(s) ==
    IF s = <<>> THEN 0
    ELSE NumOf(SubSeq(s, 1, Len(s) - 1)) * 10 + DigitVal(s[Len(s)])

\* The end of the longest run from position i: \s*, \d*, 0*, [\d\s,]*.
RECURSIVE SkipSpace(_, _)
SkipSpace(t, i) == IF IsSpace(At(t, i)) THEN SkipSpace(t, i + 1) ELSE i

RECURSIVE SkipDigits(_, _)
SkipDigits(t, i) == IF IsDigit(At(t, i)) THEN SkipDigits(t, i + 1) ELSE i

RECURSIVE SkipZeros(_, _)
SkipZeros(t, i) == IF At(t, i) = "0" THEN SkipZeros(t, i + 1) ELSE i

InAmountClass(c) == IsDigit(c) \/ IsSpace(c) \/ c = ","

RECURSIVE SkipAmountClass(_, _)
SkipAmountClass(t, i) ==
    IF InAmountClass(At(t, i)) THEN SkipAmountClass(t, i + 1) ELSE i

NoMatch == [ok |-> FALSE]

\* The values of the fields.
None == [type |-> "None"]
Str(s) == [type |-> "str", s |-> s]
\* A float is held as the digits of its whole part, without leading zeros,
\* and the two digits of its hundredths.
Float(whole, hundredths) == [type |-> "float", whole |-> whole, hundredths |-> hundredths]

\* ------------------------------------------------------------ the date
\* One group \d{1,2} followed by "/": the position of the "/", else 0.
DayOrMonthAt(t, i) ==
    IF IsDigit(At(t, i)) /\ IsDigit(At(t, i + 1)) /\ At(t, i + 2) = "/" THEN i + 2
    ELSE IF IsDigit(At(t, i)) /\ At(t, i + 1) = "/" THEN i + 1
    ELSE 0

\* _RE_DATE at position i.
RE_DATE(t, i) ==
    LET a == DayOrMonthAt(t, i)
        b == IF a = 0 THEN 0 ELSE DayOrMonthAt(t, a + 1)
    IN IF a # 0 /\ b # 0 /\ \A k \in 1..4 : IsDigit(At(t, b + k))
       THEN [ok |-> TRUE, mm |-> NumOf(SubSeq(t, i, a - 1)),
             dd |-> NumOf(SubSeq(t, a + 1, b - 1)),
             yyyy |-> NumOf(SubSeq(t, b + 1, b + 4))]
       ELSE NoMatch

\* datetime(yyyy, mm, dd) raises ValueError unless the date exists.
IsLeap(y) == (y % 4 = 0 /\ y % 100 # 0) \/ y % 400 = 0
DaysInMonth(y, m) ==
    IF m = 2 THEN (IF IsLeap(y) THEN 29 ELSE 28)
    ELSE IF m \in {4, 6, 9, 11} THEN 30 ELSE 31
DateExists(y, m, d) == y \in 1..9999 /\ m \in 1..12 /\ d \in 1..DaysInMonth(y, m)

\* The digits of n in a field of width w, zero-padded.
RECURSIVE PadDigits(_, _)
PadDigits(n, w) ==
    IF w = 0 THEN <<>> ELSE PadDigits(n \div 10, w - 1) \o <<Digits[(n % 10) + 1]>>

IsoFormat(y, m, d) ==
    PadDigits(y, 4) \o <<"-">> \o PadDigits(m, 2) \o <<"-">> \o PadDigits(d, 2)

\* ------------------------------------------------------------ the invoice number
\* _RE_INVNO at position i.  The zeros that 0* takes are given back as far
\* as \d{3,} needs them.
RE_INVNO(t, i) ==
    LET a == SkipSpace(t, i + 1)
        b == IF At(t, a + 1) = "." THEN a + 2 ELSE a + 1
        c == SkipSpace(t, b)
        e == SkipDigits(t, c)
        z == SkipZeros(t, c)
        g == IF e - z >= 3 THEN z ELSE e - 3
    IN IF At(t, i) = "Invoice" /\ At(t, a) = "No" /\ e - c >= 3
       THEN [ok |-> TRUE, group |-> SubSeq(t, g, e - 1)]
       ELSE NoMatch

\* _RE_INVNO_FBK at position i: eight digits, the first three of them
\* zeros, between two word boundaries.
RE_INVNO_FBK(t, i) ==
    IF /\ ~IsWordChar(At(t, i - 1))
       /\ \A k \in 0..2 : At(t, i + k) = "0"
       /\ \A k \in 3..7 : IsDigit(At(t, i + k))
       /\ ~IsWordChar(At(t, i + 8))
    THEN [ok |-> TRUE, group |-> SubSeq(t, i, i + 7)]
    ELSE NoMatch

\* str.lstrip("0")
RECURSIVE LStripZeros(_)
LStripZeros(s) == IF s # <<>> /\ Head(s) = "0" THEN LStripZeros(Tail(s)) ELSE s

\* ------------------------------------------------------------ the amount
\* \s+([\d\s,]+(?:\.\d{2})?) from position u, right after "USD".  \s+ takes
\* the blanks and line breaks; when no digit or comma follows them it gives
\* the last one back to the group.
AmountGroup(t, u) ==
    LET w == SkipSpace(t, u)
        e == SkipAmountClass(t, u)
        g == IF e > w THEN w ELSE w - 1
        f == IF At(t, e) = "." /\ IsDigit(At(t, e + 1)) /\ IsDigit(At(t, e + 2))
             THEN e + 3 ELSE e
    IN IF w = u \/ (e = w /\ w - u < 2) THEN NoMatch
       ELSE [ok |-> TRUE, group |-> SubSeq(t, g, f - 1)]

\* _RE_TOTALUSD at position i.
RE_TOTALUSD(t, i) ==
    LET a == SkipSpace(t, i + 1)
        b == IF At(t, a + 1) = ":" THEN a + 2 ELSE a + 1
        c == SkipSpace(t, b)
    IN IF At(t, i) = "Total" /\ a > i + 1 /\ At(t, a) = "amount" /\ At(t, c) = "USD"
       THEN AmountGroup(t, c + 1)
       ELSE NoMatch

\* _RE_ANYUSD at position i.
RE_ANYUSD(t, i) == IF At(t, i) = "USD" THEN AmountGroup(t, i + 1) ELSE NoMatch

\* _RE_NON_DIGIT_DOT.sub("", s)
KeepDigitsAndDots(s) == SelectSeq(s, LAMBDA c : IsDigit(c) \/ c = ".")

\* float(raw) for digits followed by at most one dot and two digits (all
\* that the group of the amount patterns can hold); ValueError for a string
\* without a digit.
ParseFloat(raw) ==
    LET dots == {i \in 1..Len(raw) : raw[i] = "."}
        d == IF dots = {} THEN Len(raw) + 1 ELSE CHOOSE i \in dots : TRUE
    IN IF Cardinality(dots) > 1 \/ Len(raw) - Cardinality(dots) = 0 THEN None
       ELSE IF dots = {} THEN Float(LStripZeros(raw), <<"0", "0">>)
       ELSE Float(LStripZeros(SubSeq(raw, 1, d - 1)), SubSeq(raw, d + 1, Len(raw)))

\* ------------------------------------------------------------ the description
\* USD\s*\d at position u.
UsdDigit(t, u) == At(t, u) = "USD" /\ IsDigit(At(t, SkipSpace(t, u + 1)))

\* The start of the run of blanks and line breaks that ends before u.
RECURSIVE SpaceRunStart(_, _)
SpaceRunStart(t, u) == IF IsSpace(At(t, u - 1)) THEN SpaceRunStart(t, u - 1) ELSE u

\* _RE_CASEDESCR at position i.  With g the first symbol after the header
\* that is no blank, the lazy group runs from g to the blanks before the
\* first "USD <digit>" after g; when there is none, the header's \s+ gives
\* blanks back and the group is one blank before a "USD <digit>" at g.
RE_CASEDESCR(t, i) ==
    LET a == SkipSpace(t, i + 1)
        g == SkipSpace(t, a + 1)
        U == {u \in (g + 1)..Len(t) : IsSpace(At(t, u - 1)) /\ UsdDigit(t, u)}
        u == CHOOSE v \in U : \A x \in U : v <= x
    IN IF ~(At(t, i) = "Description" /\ a > i + 1 /\ At(t, a) = "amount" /\ g > a + 1)
       THEN NoMatch
       ELSE IF U # {} THEN [ok |-> TRUE, group |-> SubSeq(t, g, SpaceRunStart(t, u) - 1)]
       ELSE IF UsdDigit(t, g) /\ g - (a + 1) >= 3
            THEN [ok |-> TRUE, group |-> SubSeq(t, g - 2, g - 2)]
       ELSE NoMatch

\* str.strip()
RECURSIVE LStrip(_)
LStrip(s) == IF s # <<>> /\ IsSpace(Head(s)) THEN LStrip(Tail(s)) ELSE s

RECURSIVE RStrip(_)
RStrip(s) ==
    IF s # <<>> /\ IsSpace(s[Len(s)]) THEN RStrip(SubSeq(s, 1, Len(s) - 1)) ELSE s

Strip(s) == RStrip(LStrip(s))

\* lines 62-65: the first line of raw that is not blank, stripped.
RECURSIVE FirstLine(_)
FirstLine(raw) ==
    LET breaks == {i \in 1..Len(raw) : raw[i] = "nl"}
        e == IF breaks = {} THEN Len(raw) + 1
             ELSE CHOOSE i \in breaks : \A j \in breaks : i <= j
        line == Strip(SubSeq(raw, 1, e - 1))
    IN IF line # <<>> THEN Str(line)
       ELSE IF e > Len(raw) THEN None
       ELSE FirstLine(SubSeq(raw, e + 1, Len(raw)))

\* ------------------------------------------------------------ the four steps
\* The match of a pattern at position i of the text.
MatchAt(pattern, t, i) ==
    CASE pattern = "RE_DATE" -> RE_DATE(t, i)
      [] pattern = "RE_INVNO" -> RE_INVNO(t, i)
      [] pattern = "RE_INVNO_FBK" -> RE_INVNO_FBK(t, i)
      [] pattern = "RE_TOTALUSD" -> RE_TOTALUSD(t, i)
      [] pattern = "RE_ANYUSD" -> RE_ANYUSD(t, i)
      [] pattern = "RE_CASEDESCR" -> RE_CASEDESCR(t, i)

\* The least position of a set of positions, 0 for the empty set.
Leftmost(S) == IF S = {} THEN 0 ELSE CHOOSE i \in S : \A j \in S : i <= j

\* pattern.search(text): the match at the leftmost position where the
\* pattern matches (no pattern matches at position 0).
Search(pattern, t) ==
    MatchAt(pattern, t, Leftmost({i \in 1..Len(t) : MatchAt(pattern, t, i).ok}))

\* lines 95-99: the date of the match m_date.
DateOf(m) ==
    IF m.ok /\ DateExists(m.yyyy, m.mm, m.dd)
    THEN Str(IsoFormat(m.yyyy, m.mm, m.dd))
    ELSE None

\* lines 93-99
FindDate(t) == DateOf(Search("RE_DATE", t))

\* Mutant: the fallback match is looked at first.
NumberOf_FallbackFirst(m, f) ==
    IF f.ok THEN Str(LStripZeros(f.group))
    ELSE IF m.ok THEN Str(m.group)
    ELSE None

\* lines 103-106: the number of the matches m_inv and m_fb.
NumberOf(m, f) ==
    IF m.ok THEN Str(m.group)
    ELSE IF f.ok THEN Str(LStripZeros(f.group))
    ELSE None

\* lines 102-106
InvoiceNumber(t) == NumberOf(Search("RE_INVNO", t), Search("RE_INVNO_FBK", t))

\* lines 111-116: the amount of the match m_amt.
AmountOf(m) == IF m.ok THEN ParseFloat(KeepDigitsAndDots(m.group)) ELSE None

\* line 110: a or b, for two matches.
OrElse(a, b) == IF a.ok THEN a ELSE b

\* Mutant: only "Total amount: USD" is looked for.
FindAmount_TotalOnly(t) == AmountOf(Search("RE_TOTALUSD", t))

\* lines 109-116
FindAmount(t) == AmountOf(OrElse(Search("RE_TOTALUSD", t), Search("RE_ANYUSD", t)))

\* lines 59-65: the description of the match m.
DescrOf(m) == IF m.ok THEN FirstLine(m.group) ELSE None

\* _find_case_descr
find_case_descr(t) == DescrOf(Search("RE_CASEDESCR", t))

\* ------------------------------------------------------------ validation
FieldNames == <<"invoice_number", "date", "amount", "case_descr">>

\* Mutant: only None counts as missing.
IsMissing_NoneOnly(v) == v = None

\* line 130: v in (None, "", [])
IsMissing(v) == v = None \/ v = Str(<<>>)

\* line 90: the texts of the pages, joined by line breaks.
RECURSIVE JoinPages(_)
JoinPages(ps) ==
    IF ps = <<>> THEN <<>>
    ELSE IF Len(ps) = 1 THEN ps[1]
    ELSE ps[1] \o <<"nl">> \o JoinPages(Tail(ps))

\* lines 93-119: what each of the four steps finds in the text.
FoundIn(t) ==
    [invoice_number |-> InvoiceNumber(t), date |-> FindDate(t),
     amount |-> FindAmount(t), case_descr |-> find_case_descr(t)]

\* lines 122-131
Missing(found) == SelectSeq(FieldNames, LAMBDA k : IsMissing(found[k]))

\* lines 132-141: the ValueError with the missing fields, or the record.
Validated(found, missing) ==
    IF missing # <<>>
    THEN [kind |-> "ValueError", missing |-> missing]
    ELSE [kind |-> "dict", invoice_number |-> found.invoice_number,
          date |-> found.date, amount |-> found.amount,
          case_descr |-> found.case_descr]

\* lines 122-141
Validate(found) == Validated(found, Missing(found))

\* lines 90-141
parse_invoice(ps) == Validate(FoundIn(JoinPages(ps)))

\* ------------------------------------------------------------ documents
\* The pages that a document may hold.
MaxPages == 3

InvoiceNo(digits) == <<"Invoice", " ", "No", ".", " ">> \o digits
TotalAmount(number) == <<"Total", " ", "amount", ":", " ", "USD", " ">> \o number
DescrBlock(money) == <<"Description", " ", "amount", "nl", "nl", "x", "nl">> \o money

ADate == <<"3", "/", "1", "0", "/", "2", "0", "2", "5">>
NoSuchDate == <<"1", "3", "/", "1", "0", "/", "2", "0", "2", "5">>
PaddedNumber == <<"0", "0", "0", "1", "2", "3", "4", "5">>
ShortNumber == <<"0", "0", "0", "1", "2">>
BareToken == <<"0", "0", "0", "5", "4", "3", "2", "1">>
ZeroToken == <<"0", "0", "0", "0", "0", "0", "0", "0">>
Clean4000 == <<"4", "0", "0", "0", ".", "0", "0">>
Comma4000 == <<"4", ",", "0", "0", "0", ".", "0", "0">>
Space4000 == <<"4", " ", "0", "0", "0", ",", "0", "0">>
Whole4000 == <<"4", "0", "0", "0">>

\* What pdfplumber may extract from a page.
PageTexts ==
    {ADate, NoSuchDate,
     InvoiceNo(PaddedNumber), InvoiceNo(ShortNumber),
     PaddedNumber, BareToken, ZeroToken,
     InvoiceNo(PaddedNumber) \o <<"nl">> \o ADate,
     DescrBlock(<<"USD", " ", "4", "0", "0", "0">>),
     DescrBlock(<<"USD", "4", "0", "0", "0">>),
     TotalAmount(Clean4000), TotalAmount(Comma4000), TotalAmount(Space4000),
     TotalAmount(Whole4000),
     <<"x">>}

\* line 89: the document has one more page.
ExtractPage(p) ==
    /\ info.kind = "none"
    /\ Len(pages) < MaxPages
    /\ pages' = Append(pages, p)
    /\ UNCHANGED <<persistent, pc, volatile, ghost, info, finder, local>>

OpenPdf == \E p \in PageTexts : ExtractPage(p)

\* parse_invoice is called on the document.
ParseInvoice ==
    /\ info.kind = "none"
    /\ info' = parse_invoice(pages)
    /\ UNCHANGED <<persistent, pc, volatile, ghost, pages, finder, local>>

NextParse == OpenPdf \/ ParseInvoice

SpecParse == Init /\ [][NextParse]_vars

\* ------------------------------------------------------------ vocabulary of the parser claims
\* The text that parse_invoice searches.
FullText == JoinPages(pages)

\* A value that is None or an empty string.
Empty(v) == v.type = "None" \/ (v.type = "str" /\ v.s = <<>>)

Fields == {FieldNames[i] : i \in 1..Len(FieldNames)}
NotFoundIn(t) == {k \in Fields : Empty(FoundIn(t)[k])}

Listed(missing) == {missing[i] : i \in 1..Len(missing)}

\* ------------------------------------------------------------ C16
\* C16: parse_invoice returns a record only when each of the four fields was
\* found and is not empty, and the record then holds the four values as found;
\* otherwise it raises one ValueError that lists every field that was not
\* found or is empty, each once, and nothing else: no field value leaves
\* parse_invoice then.
C16_AllFourOrError ==
    /\ info.kind \in {"none", "dict", "ValueError"}
    /\ info.kind = "dict" =>
          /\ NotFoundIn(FullText) = {}
          /\ DOMAIN info = {"kind"} \cup Fields
          /\ \A k \in Fields : info[k] = FoundIn(FullText)[k] /\ ~Empty(info[k])
    /\ info.kind = "ValueError" =>
          /\ DOMAIN info = {"kind", "missing"}
          /\ Listed(info.missing) = NotFoundIn(FullText)
          /\ Len(info.missing) = Cardinality(NotFoundIn(FullText))
          /\ info.missing # <<>>

\* A document with a date and a description block whose only number token
\* is 00000000: the number is found but empty after the zeros are stripped,
\* and the error names it and nothing else.
C16_Witness ==
    /\ info.kind = "ValueError"
    /\ info.missing = <<"invoice_number">>
    /\ Search("RE_INVNO_FBK", FullText).ok
    /\ ~Search("RE_INVNO", FullText).ok

\* ------------------------------------------------------------ C17
\* The fields whose required substring is in the text: the US-format date,
\* "Invoice No" and its digits, "Total amount: USD" and its number, the
\* Description/Amount block.
Present(t) ==
    {k \in Fields :
        \/ k = "date" /\ Search("RE_DATE", t).ok
        \/ k = "invoice_number" /\ Search("RE_INVNO", t).ok
        \/ k = "amount" /\ Search("RE_TOTALUSD", t).ok
        \/ k = "case_descr" /\ Search("RE_CASEDESCR", t).ok}

\* C17 (as stated): for a text that holds three of the four required
\* substrings and lacks one, extraction fails and names the field of the
\* lacking substring and no other field.
C17_MissingOneNamesIt ==
    (info.kind # "none" /\ Cardinality(Present(FullText)) = 3) =>
       /\ info.kind = "ValueError"
       /\ Listed(info.missing) = Fields \ Present(FullText)

\* What the required substring of field k gives, and what the fallback
\* pattern of the field gives; the date and the description have none.
FromSubstring(k, t) ==
    IF k = "invoice_number" THEN Str(Search("RE_INVNO", t).group)
    ELSE IF k = "amount" THEN ParseFloat(KeepDigitsAndDots(Search("RE_TOTALUSD", t).group))
    ELSE FoundIn(t)[k]

FromFallback(k, t) ==
    IF k = "invoice_number" /\ Search("RE_INVNO_FBK", t).ok
       THEN Str(LStripZeros(Search("RE_INVNO_FBK", t).group))
    ELSE IF k = "amount" /\ Search("RE_ANYUSD", t).ok
       THEN ParseFloat(KeepDigitsAndDots(Search("RE_ANYUSD", t).group))
    ELSE None

\* C17 (amended): for a text that lacks one of the four required substrings
\* and whose other three give their fields, extraction fails and names the
\* field of the lacking substring, and only it, when the fallback pattern
\* of the field gives nothing either; when the fallback gives a value (a
\* bare 000ddddd token for the invoice number, any "USD <number>" for the
\* amount, such as the money cell of the Description/Amount block),
\* extraction succeeds with that value.
C17_MissingOneUnlessFallback ==
    (/\ info.kind # "none"
     /\ Cardinality(Present(FullText)) = 3
     /\ \A k \in Present(FullText) : ~Empty(FromSubstring(k, FullText))) =>
       \A k \in Fields \ Present(FullText) :
          IF Empty(FromFallback(k, FullText))
          THEN info.kind = "ValueError" /\ info.missing = <<k>>
          ELSE info.kind = "dict" /\ info[k] = FromFallback(k, FullText)

\* A document with a date, an invoice number and a description block whose
\* money cell has no blank after USD, and without "Total amount": the
\* error names the amount alone.
C17_Witness ==
    /\ info.kind = "ValueError"
    /\ info.missing = <<"amount">>
    /\ Present(FullText) = Fields \ {"amount"}
    /\ \A k \in Present(FullText) : ~Empty(FromSubstring(k, FullText))

\* ------------------------------------------------------------ C18
\* The text ends with "Total amount: USD" and the given number.
EndsWithTotal(t, number) ==
    /\ Len(t) >= Len(TotalAmount(number))
    /\ SubSeq(t, Len(t) - Len(TotalAmount(number)) + 1, Len(t)) = TotalAmount(number)
    /\ Cardinality({i \in 1..Len(t) : t[i] = "Total"}) = 1

\* C18 (as stated): the amount of a parsed document whose total is written
\* 4000.00, 4,000.00 or 4 000,00 is 4000.00.  The comma of 4 000,00 is
\* removed like a grouping comma and the amount read is 400000.0.
C18_GroupingKeepsValue ==
    \A number \in {Clean4000, Comma4000, Space4000} :
       (info.kind = "dict" /\ EndsWithTotal(FullText, number)) =>
          info.amount = Float(<<"4", "0", "0", "0">>, <<"0", "0">>)

\* ------------------------------------------------------------ C19
\* The leftmost positions where the two invoice-number patterns match.
FirstAt(pattern, t) ==
    CHOOSE i \in 1..Len(t) :
       MatchAt(pattern, t, i).ok /\ \A j \in 1..(i - 1) : ~MatchAt(pattern, t, j).ok

\* C19: when "Invoice No" and its digits are somewhere in the text, the
\* invoice number is the one that follows them, wherever a bare 8-digit
\* 000 token stands; the number comes from such a token only when the
\* "Invoice No" pattern matches nowhere, and is then the token without its
\* leading zeros: 00012345 gives 12345.
C19_PrimaryTakesPrecedence ==
    LET t == FullText
        number == InvoiceNumber(t)
    IN /\ Search("RE_INVNO", t).ok => number = Str(Search("RE_INVNO", t).group)
       /\ (~Search("RE_INVNO", t).ok /\ Search("RE_INVNO_FBK", t).ok) =>
             /\ number = Str(LStripZeros(Search("RE_INVNO_FBK", t).group))
             /\ Search("RE_INVNO_FBK", t).group = PaddedNumber =>
                   number = Str(<<"1", "2", "3", "4", "5">>)
             /\ Search("RE_INVNO_FBK", t).group = BareToken =>
                   number = Str(<<"5", "4", "3", "2", "1">>)
       /\ info.kind = "dict" => info.invoice_number = number

\* A parsed document in which the bare token 00054321 stands before
\* "Invoice No. 00012345": the number is 12345.
C19_Witness ==
    /\ info.kind = "dict"
    /\ Search("RE_INVNO", FullText).ok
    /\ Search("RE_INVNO_FBK", FullText).ok
    /\ FirstAt("RE_INVNO_FBK", FullText) < FirstAt("RE_INVNO", FullText)
    /\ Search("RE_INVNO_FBK", FullText).group = BareToken
    /\ info.invoice_number = Str(<<"1", "2", "3", "4", "5">>)

\* ------------------------------------------------------------ C20
\* C20 (as stated): the invoice number of a parsed document is a string of
\* digits that is not empty and does not start with a zero.  After "Invoice
\* No" a zero-padded number below 100 keeps as many of its zeros as \d{3,}
\* needs.
C20_NoLeadingZero ==
    info.kind = "dict" =>
       /\ info.invoice_number.type = "str"
       /\ info.invoice_number.s # <<>>
       /\ \A i \in 1..Len(info.invoice_number.s) : IsDigit(info.invoice_number.s[i])
       /\ Head(info.invoice_number.s) # "0"


\* ------------------------------------------------------------ C24
\* The stage that follows each stage of a case whose invoice was found.
NextStage(stage) ==
    CASE stage = "dl_inv" -> "parse"
      [] stage = "parse" -> "file"
      [] stage = "file" -> "append"
      [] stage = "append" -> "fin_xlsx"

InvoiceOnly == inv_meta /\ ~grant_meta

\* A step of such a case that is neither an adverse outcome nor a kill.
InvoiceOnlyStep ==
    /\ pc \in {"dl_inv", "parse", "file", "append"}
    /\ InvoiceOnly
    /\ faults' = faults
    /\ kills' = kills

\* The step that takes the case to its next stage can be taken.
NotBlocked ==
    /\ (pc = "dl_inv" => ENABLED DownloadInvoice)
    /\ (pc = "parse" => ENABLED ParseOk)
    /\ (pc = "file" => ENABLED FileOk)
    /\ (pc = "append" => ENABLED AppendOk)

InvoiceOnlyEffect ==
    /\ pc' = NextStage(pc)
    /\ case_flags'.grant_downloaded = case_flags.grant_downloaded
    /\ "move_grant" \notin ops'[Cur]
    /\ (pc = "file" => "move_invoice" \in ops'[Cur])
    /\ (pc = "append" => cases_df'[idx].status = StDone)

\* C24: a case whose folder holds an invoice and no grant agreement goes, in
\* the run that found the invoice and short of an adverse outcome or a kill,
\* from download through parse, filing and recording to done; the run never
\* sets grant_downloaded and moves the invoice only.
C24_InvoiceAloneGoesToDone ==
    /\ [][InvoiceOnlyStep => InvoiceOnlyEffect]_vars
    /\ [](InvoiceOnly => NotBlocked)
    /\ [](pc \in FinallyPcs /\ InvoiceOnly /\ ~FailedInRun(Cur)
            => /\ CurRow.status = StDone
               /\ {"extract", "file", "move_invoice", "row", "appended"} \subseteq ops[Cur]
               /\ "move_grant" \notin ops[Cur]
               /\ case_flags.grant_downloaded
                     = LoadCaseFlags(startSeen.cases, Cur).grant_downloaded)

C24_Witness ==
    /\ Completed
    /\ \E c \in Cases :
          /\ StatusIn(xlsx, c) = StDone
          /\ {"move_invoice", "appended"} \subseteq ops[c]
          /\ "move_grant" \notin ops[c]
          /\ ~PersistedFlags(c).grant_downloaded

\* ------------------------------------------------------------ C25
\* C25 (as stated): after any run that completes, a case whose persisted
\* status is done has no error in its persisted flags.  The flags of an
\* earlier failed attempt are loaded at line 334 and nothing clears error.
C25_DoneHasNoError ==
    pc = "idle" =>
       \A c \in Cases :
          StatusIn(xlsx, c) = StDone => PersistedFlags(c).error = "none"

\* ------------------------------------------------------------ C26
\* C26: when a run of process() returns, no row of the status table is still
\* waiting for its invoice.
C26_NoPendingAfterRun ==
    Completed =>
       /\ cases_df = xlsx
       /\ \A i \in 1..Len(xlsx) : xlsx[i].status.kind \in {"done", "error"}

C26_Witness ==
    /\ Completed
    /\ Len(xlsx) = 2
    /\ xlsx[1].status.kind = "error"
    /\ xlsx[2].status = StDone

\* ------------------------------------------------------------ C27
\* C27: a message id is in the seen file only if the status table on disk
\* has the row of the case that the message names.
C27_SeenOnlyAfterRow ==
    \A m \in seenFile.messages : m \in Msgs /\ KnownIn(xlsx, MsgCase(m))

\* A run was killed between the write of the table and the write of the
\* seen file: the row is on disk, the message is not seen.
C27_Witness ==
    /\ pc = "idle" /\ runEnd = "killed"
    /\ xlsx # <<>>
    /\ seenFile.messages = {}

\* ------------------------------------------------------------ C28
\* C28 (as stated): whenever a row is appended to the tracking sheet, the
\* invoice number that parse_invoice read from the document of the row is the
\* case number of the row.  process() never compares the two.
C28_RowOfOwnInvoice == [][sheet' # sheet => info_no = Cur]_vars

\* ------------------------------------------------------------ C29
\* The text of the first k pages: it ends where a line break of the document
\* begins.
UpToPage(k) == JoinPages(SubSeq(pages, 1, k))

\* C29 (as stated): the amount that is found in the text up to a line break
\* is the amount of the document, whatever the lines after the break hold.
\* The class [\d\s,] of the amount patterns holds the line break, so the
\* digits that begin the next line are joined to the number.
C29_NextLineKeepsAmount ==
    info.kind = "dict" =>
       \A k \in 1..(Len(pages) - 1) :
          FindAmount(UpToPage(k)) # None => info.amount = FindAmount(UpToPage(k))

\* ============================================================ document selection
\* find_latest_pdf (src/Mega_Help_Scriptv2.py lines 212-225), find_first_pdf
\* (src/Google_add_string_Hv2-1.py lines 139-159) and find_latest_grant
\* (src/DriveScript_v4.py lines 154-195) on the PDFs of one case folder.
\* A name is the sequence of its characters.
MaxFiles == 3

UpperCase == <<"A", "B", "C", "D", "E", "F", "G", "H", "I", "J", "K", "L", "M", "N", "O", "P", "Q", "R", "S", "T", "U", "V", "W", "X", "Y", "Z">>
LowerCase == <<"a", "b", "c", "d", "e", "f", "g", "h", "i", "j", "k", "l", "m", "n", "o", "p", "q", "r", "s", "t", "u", "v", "w", "x", "y", "z">>

\* str.lower(), one character and a whole string.
Lower(c) ==
    IF \E n \in 1..Len(UpperCase) : UpperCase[n] = c
    THEN LowerCase[CHOOSE n \in 1..Len(UpperCase) : UpperCase[n] = c]
    ELSE c
LowerStr(s) == [n \in 1..Len(s) |-> Lower(s[n])]

\* str.startswith()
StartsWith(s, prefix) == Len(s) >= Len(prefix) /\ SubSeq(s, 1, Len(prefix)) = prefix

\* The prefixes that process() and main() ask for.
PrefixInvoice == <<"I", "n", "v", "o", "i", "c", "e">>
PrefixGrant == <<"G", "r", "a", "n", "t", " ", "A", "g", "r", "e", "e", "m", "e", "n", "t">>
Prefixes == {PrefixInvoice, PrefixGrant}

\* The names of the PDFs that a case folder may hold.
FileNames ==
    {<<"I", "n", "v", "o", "i", "c", "e", ".", "p", "d", "f">>,
     <<"I", "N", "V", "O", "I", "C", "E", " ", "2", ".", "p", "d", "f">>,
     <<"I", "n", "v", ".", "p", "d", "f">>,
     <<"g", "r", "a", "n", "t", " ", "a", "g", "r", "e", "e", "m", "e", "n", "t", ".", "p", "d", "f">>,
     <<"G", "r", "a", "n", "t", " ", "A", "g", "r", "e", "e", "m", "e", "n", "t", ".", "p", "d", "f">>}
Times == {1, 2}

\* pageSize of the list call of find_latest_pdf, and of the two others.
LatestPdfPageSize == 100
PAGE_SIZE == 1000

\* The orders in which a list call may return the files of the folder.
Listings(S) ==
    {l \in [1..Cardinality(S) -> S] : \A a, b \in 1..Cardinality(S) : l[a] = l[b] => a = b}

\* orderBy="modifiedTime desc"
NewestFirst(l) == \A a \in 1..(Len(l) - 1) : l[a].modifiedTime >= l[a + 1].modifiedTime

\* The one page that the response holds: no page token is followed.
FirstPage(l, pageSize) == SubSeq(l, 1, IF Len(l) < pageSize THEN Len(l) ELSE pageSize)

Matches(f, prefix) == StartsWith(LowerStr(f.name), LowerStr(prefix))

\* for f in resp.get("files", []): if f["name"].lower().startswith(...): return f
FirstMatch(l, prefix) ==
    IF \E a \in 1..Len(l) : Matches(l[a], prefix)
    THEN l[Leftmost({a \in 1..Len(l) : Matches(l[a], prefix)})]
    ELSE None

find_latest_pdf(l, prefix) == FirstMatch(FirstPage(l, LatestPdfPageSize), prefix)

find_first_pdf(l, prefix) == FirstMatch(FirstPage(l, PAGE_SIZE), prefix)

\* max(candidates, key=modifiedTime): the first of the newest candidates.
MaxByTime(candidates) ==
    candidates[Leftmost({a \in 1..Len(candidates) :
                  \A b \in 1..Len(candidates) :
                     candidates[b].modifiedTime <= candidates[a].modifiedTime})]

GrantCandidates(l) == SelectSeq(l, LAMBDA f : StartsWith(LowerStr(f.name), LowerStr(PrefixGrant)))

LatestOf(candidates) == IF candidates = <<>> THEN None ELSE MaxByTime(candidates)

find_latest_grant(l) == LatestOf(GrantCandidates(FirstPage(l, PAGE_SIZE)))

\* A PDF is put into the folder.
Upload(name, time) ==
    /\ chosen.by = "none"
    /\ Cardinality(files) < MaxFiles
    /\ files' = files \cup {[id |-> Cardinality(files) + 1, name |-> name,
                              modifiedTime |-> time]}
    /\ UNCHANGED <<persistent, pc, volatile, ghost, parser, chosen, local>>

PutFile == \E name \in FileNames, time \in Times : Upload(name, time)

Chosen(by, prefix, file) == [by |-> by, prefix |-> prefix, file |-> file]

FindLatestPdf ==
    /\ chosen.by = "none"
    /\ \E prefix \in Prefixes, l \in Listings(files) :
          /\ NewestFirst(l)
          /\ chosen' = Chosen("find_latest_pdf", prefix, find_latest_pdf(l, prefix))
    /\ UNCHANGED <<persistent, pc, volatile, ghost, parser, files, local>>

\* The list call of find_first_pdf asks for no order.
FindFirstPdf ==
    /\ chosen.by = "none"
    /\ \E prefix \in Prefixes, l \in Listings(files) :
          chosen' = Chosen("find_first_pdf", prefix, find_first_pdf(l, prefix))
    /\ UNCHANGED <<persistent, pc, volatile, ghost, parser, files, local>>

FindLatestGrant ==
    /\ chosen.by = "none"
    /\ \E l \in Listings(files) :
          chosen' = Chosen("find_latest_grant", PrefixGrant, find_latest_grant(l))
    /\ UNCHANGED <<persistent, pc, volatile, ghost, parser, files, local>>

NextFind == PutFile \/ FindLatestPdf \/ FindFirstPdf \/ FindLatestGrant

SpecFind == Init /\ [][NextFind]_vars

\* ------------------------------------------------------------ C23
\* The PDFs of the folder whose name starts with the prefix, whatever the case.
Matching(prefix) == {f \in files : Matches(f, prefix)}

\* C23 (as stated): the selection returns a matching PDF of the greatest
\* modification time, and nothing only when no PDF matches.  find_first_pdf
\* takes the first match of a listing that has no order.
C23_NewestMatching ==
    chosen.by # "none" =>
       IF Matching(chosen.prefix) = {}
       THEN chosen.file = None
       ELSE /\ chosen.file \in Matching(chosen.prefix)
            /\ \A g \in Matching(chosen.prefix) :
                  g.modifiedTime <= chosen.file.modifiedTime

\* ============================================================ the local directory
\* create_case_dir and the step that files the documents of a parsed invoice:
\* main() of src/Google_add_string_Hv2-2.py (lines 205-216; the same step in
\* src/Google_add_string_Hv2-1.py lines 240-255) and process() of
\* src/Mega_Help_Scriptv2.py (lines 366-369).  A name is a sequence of
\* symbols: single characters, and the words of the template.
MaxAttempts == 2

\* str(n) for an int n >= 0.
RECURSIVE DigitsOf(_)
DigitsOf(n) ==
    IF n < 10 THEN <<Digits[n + 1]>>
    ELSE DigitsOf(n \div 10) \o <<Digits[(n % 10) + 1]>>

\* datetime.fromisoformat(date_iso).strftime("%y-%m")
YearMonth(date_iso) ==
    PadDigits(NumOf(SubSeq(date_iso, 1, 4)) % 100, 2) \o <<"-">>
       \o PadDigits(NumOf(SubSeq(date_iso, 6, 7)), 2)

\* Mutant: the amount is cut to its whole part.
IntRound_Truncates(amount) == NumOf(amount.whole)

\* int(round(amount)): to the nearest integer, a half to the even one.
IntRound(amount) ==
    IF NumOf(amount.hundredths) > 50
       \/ (NumOf(amount.hundredths) = 50 /\ NumOf(amount.whole) % 2 = 1)
    THEN NumOf(amount.whole) + 1
    ELSE NumOf(amount.whole)

CONSTANT_TEXT == <<"XXX">>
FORBIDDEN == {"<", ">", ":", "\"", "/", "\\", "|", "?", "*"}

\* re.sub(f"[{re.escape(FORBIDDEN)}]", "_", name)
ReplaceForbidden(name) ==
    [n \in 1..Len(name) |-> IF name[n] \in FORBIDDEN THEN "_" ELSE name[n]]

\* str.strip(" .")
RECURSIVE LStripSpaceDot(_)
LStripSpaceDot(name) ==
    IF name # <<>> /\ Head(name) \in {" ", "."} THEN LStripSpaceDot(Tail(name)) ELSE name

RECURSIVE RStripSpaceDot(_)
RStripSpaceDot(name) ==
    IF name # <<>> /\ name[Len(name)] \in {" ", "."}
    THEN RStripSpaceDot(SubSeq(name, 1, Len(name) - 1))
    ELSE name

sanitize(name) == RStripSpaceDot(LStripSpaceDot(ReplaceForbidden(name)))

\* The f-string of create_case_dir: the words of the template are written
\* "Nova", "Nr" (the numero sign) and "Help", each one symbol.
DirName(yy_mm, rounded, invoice_number) ==
    <<"Nova", " ">> \o yy_mm \o <<" ">> \o CONSTANT_TEXT \o <<" ">> \o DigitsOf(rounded)
       \o <<" ", "Nr">> \o DigitsOf(invoice_number) \o <<" ", "Help">>

\* The name of the directory that create_case_dir makes.
folder_name(date_iso, amount, invoice_number) ==
    sanitize(DirName(YearMonth(date_iso), IntRound(amount), invoice_number))

\* path.mkdir(exist_ok=True): a directory of this name is there afterwards.
Mkdir(ds, name, invoice_number) ==
    IF \E d \in ds : d.name = name THEN ds
    ELSE ds \cup {[name |-> name, owner |-> invoice_number, docs |-> {}]}

\* shutil.move of the documents of a case into the directory of this name.
MoveInto(ds, name, invoice_number) ==
    {IF d.name = name THEN [d EXCEPT !.docs = @ \cup {invoice_number}] ELSE d : d \in ds}

\* sub in s, for two strings.
Contains(s, sub) ==
    \E n \in 1..(Len(s) - Len(sub) + 1) : SubSeq(s, n, n + Len(sub) - 1) = sub

\* p.is_dir() and str(invoice_num) in p.name
NamesCase(d, invoice_number) == Contains(d.name, DigitsOf(invoice_number))

\* The case numbers, dates and amounts of the invoices that are filed.
FiledCases == {12, 123}
IsoDates == {IsoFormat(2025, 3, 10), IsoFormat(2025, 4, 1)}
Amounts == {Float(<<"4", "0", "0", "0">>, <<"0", "0">>),
            Float(<<"4", "0", "0", "0">>, <<"6", "0">>),
            Float(<<"1", "2", "0", "0">>, <<"5", "0">>)}

\* parse_invoice returned the date and the amount of the invoice of a case.
ParsedInvoice ==
    /\ filing.stage \in {"none", "filed"}
    /\ attempts < MaxAttempts
    /\ attempts' = attempts + 1
    /\ \E invoice_num \in FiledCases, date_iso \in IsoDates, amount \in Amounts :
          filing' = [stage |-> "parsed", invoice_num |-> invoice_num,
                     date |-> date_iso, amount |-> amount]
    /\ UNCHANGED <<persistent, pc, volatile, ghost, parser, finder, dirs, target, made>>

\* What one call of create_case_dir is remembered by.
Call(date_iso, amount, invoice_number) ==
    [date |-> date_iso, amount |-> amount, invoice_number |-> invoice_number,
     name |-> folder_name(date_iso, amount, invoice_number)]

CurrentCall == Call(filing.date, filing.amount, filing.invoice_num)

\* create_case_dir, then the moves, for the invoice in hand.
CreateAndMove ==
    /\ dirs' = MoveInto(Mkdir(dirs, CurrentCall.name, filing.invoice_num),
                        CurrentCall.name, filing.invoice_num)
    /\ target' = CurrentCall.name
    /\ made' = made \cup {CurrentCall}

\* main(), lines 205-212: no directory names the case.
MainCreates ==
    /\ filing.stage = "parsed"
    /\ ~\E d \in dirs : NamesCase(d, filing.invoice_num)
    /\ CreateAndMove
    /\ filing' = [filing EXCEPT !.stage = "filed"]
    /\ UNCHANGED <<persistent, pc, volatile, ghost, parser, finder, attempts>>

\* main(), lines 205-216: the first directory, in the order of iterdir(),
\* whose name holds the digits of the case number is taken.
MainReuses ==
    /\ filing.stage = "parsed"
    /\ \E d \in dirs :
          /\ NamesCase(d, filing.invoice_num)
          /\ dirs' = MoveInto(dirs, d.name, filing.invoice_num)
          /\ target' = d.name
    /\ filing' = [filing EXCEPT !.stage = "filed"]
    /\ UNCHANGED <<persistent, pc, volatile, ghost, parser, finder, made, attempts>>

\* process(), lines 366-369: create_case_dir is called without a lookup.
ProcessFiles ==
    /\ filing.stage = "parsed"
    /\ CreateAndMove
    /\ filing' = [filing EXCEPT !.stage = "filed"]
    /\ UNCHANGED <<persistent, pc, volatile, ghost, parser, finder, attempts>>

NextFile == ParsedInvoice \/ MainCreates \/ MainReuses \/ ProcessFiles

SpecFile == Init /\ [][NextFile]_vars

\* ------------------------------------------------------------ vocabulary of the directory claims
DirNames(ds) == {d.name : d \in ds}

\* The directories whose name holds the digits of the case being filed.
Holding == {d \in dirs : Contains(d.name, DigitsOf(filing.invoice_num))}

\* The step that files the parsed invoice.
FilingStep == filing.stage = "parsed" /\ filing'.stage = "filed"

\* ------------------------------------------------------------ C21
\* The outcome of the filing step that the statement asks for.
ReusedOrCreated ==
    IF Holding # {}
    THEN /\ DirNames(dirs') = DirNames(dirs)
         /\ target' \in DirNames(Holding)
    ELSE /\ DirNames(dirs') = DirNames(dirs) \cup {CurrentCall.name}
         /\ Cardinality(dirs') = Cardinality(dirs) + 1
         /\ target' = CurrentCall.name

\* C21 (as stated): the filing step reuses a directory whose name holds the
\* case number when there is one, and makes no directory then, even when the
\* name computed in this attempt is another one; otherwise it makes exactly
\* one directory, of the computed name.  process() makes the directory of the
\* computed name without looking for an existing one.
C21_ReuseElseCreateOne == [][FilingStep => ReusedOrCreated]_vars

\* ------------------------------------------------------------ C22
\* The year and the month as the ISO date writes them: YYYY-MM-DD.
WrittenYearMonth(date_iso) == SubSeq(date_iso, 3, 7)

\* n is an integer nearest to the amount (hundredths are compared).
NearestTo(n, amount) ==
    LET h == NumOf(amount.whole) * 100 + NumOf(amount.hundredths)
    IN h - 100 * n \in 0..50 \/ 100 * n - h \in 0..50

NameIsWellFormed(call) ==
    /\ Contains(call.name, <<" ">> \o WrittenYearMonth(call.date) \o <<" ">>)
    /\ Contains(call.name, CONSTANT_TEXT)
    /\ \E n \in 0..5000 :
          /\ NearestTo(n, call.amount)
          /\ Contains(call.name, <<" ">> \o DigitsOf(n) \o <<" ">>)
    /\ Contains(call.name, <<"Nr">> \o DigitsOf(call.invoice_number) \o <<" ">>)
    /\ \A n \in 1..Len(call.name) : call.name[n] \notin FORBIDDEN
    /\ call.name[1] \notin {" ", "."}
    /\ call.name[Len(call.name)] \notin {" ", "."}

SameInputs(a, b) ==
    a.date = b.date /\ a.amount = b.amount /\ a.invoice_number = b.invoice_number

\* C22: every call of create_case_dir with the same date, amount and invoice
\* number gives the same name; the name holds the year and month YY-MM, the
\* marker, the amount rounded to an integer and the invoice number, none of
\* the forbidden characters, and neither begins nor ends with a blank or a
\* period.
C22_FolderNameIsPure ==
    /\ \A a, b \in made : SameInputs(a, b) => a.name = b.name
    /\ \A call \in made : NameIsWellFormed(call)

\* Two calls that differ in the amount only, one rounded up and one a half
\* that is rounded down to the even integer.
C22_Witness ==
    \E a, b \in made :
       /\ a.date = b.date /\ a.invoice_number = b.invoice_number
       /\ a.amount = Float(<<"4", "0", "0", "0">>, <<"6", "0">>)
       /\ b.amount = Float(<<"1", "2", "0", "0">>, <<"5", "0">>)
       /\ Contains(a.name, <<"4", "0", "0", "1">>)
       /\ Contains(b.name, <<"1", "2", "0", "0">>)

\* ------------------------------------------------------------ C30
\* C30 (as stated): a directory holds the documents of the case it was made
\* for and of no other case.  The lookup of main() takes any directory whose
\* name holds the digits of the case number, in the amount or inside a longer
\* case number too.
C30_OwnDirectoryOnly == \A d \in dirs : d.docs \subseteq {d.owner}

=============================================================================
